---- MODULE Spec2Model ----
(***************************************************************************)
(* The knowledge base of the Minesweeper player (class MinesweeperAI of    *)
(* minesweeper.py), its sentences (class Sentence) and the board that      *)
(* reports the counts (class Minesweeper).                                 *)
(*                                                                         *)
(* Two specifications share the variables:                                 *)
(*   Spec     a game on a GameHeight x GameWidth board: GameMines mines    *)
(*            are placed at construction, anywhere, and the player         *)
(*            reveals non-mine cells, each at most once and in any order,  *)
(*            reporting the board's own count to add_knowledge;            *)
(*   SpecAPI  an engine of APIHeight x APIWidth cells driven directly:     *)
(*            add_knowledge with any cell and any count, mark_mine,        *)
(*            mark_safe and make_safe_move.                                *)
(*   SpecSteps  the same engine with add_knowledge called directly and     *)
(*            its infer_new_sentence pass taken one loop iteration at a    *)
(*            time; SpecStepsFair adds that a loop that can step does.     *)
(* Every call is one action in Spec and SpecAPI.  `pre` and `last` record  *)
(* the engine state before the last call, and the call with its returned   *)
(* value, so that a postcondition is a predicate of one state.  `loop` is  *)
(* the position of infer_new_sentence in SpecSteps.                        *)
(***************************************************************************)
EXTENDS Integers, FiniteSets, Sequences

VARIABLES height, width, board, moves_made, mines, safes, knowledge, calls, pre, last,
          loop

vars == <<height, width, board, moves_made, mines, safes, knowledge, calls, pre, last,
          loop>>

(* The height and width the board and the player of a game are built with *)
GameHeight == 3
GameWidth == 3

(* The number of mines the board of a game is built with *)
GameMines == 3

(* The height and width of the engine that is driven directly *)
APIHeight == 2
APIWidth == 3

(* Number of direct calls in a run of SpecAPI, and the largest count given *)
(* to add_knowledge there.                                                  *)
MaxCalls == 3
MaxCount == 2

(* Number of add_knowledge calls in a run of SpecSteps *)
MaxStepCalls == 2

Cells(h, w) == (0 .. h - 1) \X (0 .. w - 1)

(* Python's None, as returned by make_safe_move; no cell equals it. *)
None == <<>>

(* for i in range(cell[0]-1, cell[0]+2): for j in range(cell[1]-1, cell[1]+2), *)
(* the cell itself skipped, in bounds only                                     *)
Around(h, w, cell) ==
    { n \in (cell[1] - 1 .. cell[1] + 1) \X (cell[2] - 1 .. cell[2] + 1) :
        /\ n # cell
        /\ 0 <= n[1] /\ n[1] < h
        /\ 0 <= n[2] /\ n[2] < w }

(* Minesweeper.nearby_mines *)
nearby_mines(h, w, b, cell) == Cardinality({ n \in Around(h, w, cell) : n \in b })

(* Minesweeper.is_mine *)
is_mine(b, cell) == cell \in b

----------------------------------------------------------------------------
(* class Sentence *)

Sentence(cells, count) == [cells |-> cells, count |-> count]

Sentence_mark_mine_keep_count(s, cell) ==
    IF cell \in s.cells THEN Sentence(s.cells \ {cell}, s.count) ELSE s

Sentence_mark_mine(s, cell) ==
    IF cell \in s.cells THEN Sentence(s.cells \ {cell}, s.count - 1) ELSE s

Sentence_mark_safe(s, cell) ==
    IF cell \in s.cells THEN Sentence(s.cells \ {cell}, s.count) ELSE s

(* `sentence in knowledge`: list membership by Sentence.__eq__ *)
InKnowledge(s, kn) == \E i \in DOMAIN kn : kn[i].cells = s.cells /\ kn[i].count = s.count

----------------------------------------------------------------------------
(* class MinesweeperAI; st is the engine state                             *)
(* [height, width, moves_made, mines, safes, knowledge]                    *)

(* MinesweeperAI.__init__ *)
NewAI(h, w) ==
    [height |-> h, width |-> w,
     moves_made |-> {}, mines |-> {}, safes |-> {}, knowledge |-> <<>>]

mark_mine(st, cell) ==
    [st EXCEPT !.mines = @ \cup {cell},
               !.knowledge = [i \in DOMAIN @ |-> Sentence_mark_mine(@[i], cell)]]

mark_safe_unmarking_mine(st, cell) ==
    [st EXCEPT !.safes = @ \cup {cell},
               !.mines = @ \ {cell},
               !.knowledge = [i \in DOMAIN @ |-> Sentence_mark_safe(@[i], cell)]]

mark_safe(st, cell) ==
    [st EXCEPT !.safes = @ \cup {cell},
               !.knowledge = [i \in DOMAIN @ |-> Sentence_mark_safe(@[i], cell)]]

(* `for c in S: self.mark_mine(c)`.  Python iterates the set in an order of *)
(* its own; marking two cells commutes, so the result is the same in any.   *)
RECURSIVE mark_mine_each(_, _)
mark_mine_each(st, S) ==
    IF S = {} THEN st
    ELSE LET c == CHOOSE x \in S : TRUE
         IN  mark_mine_each(mark_mine(st, c), S \ {c})

RECURSIVE mark_safe_each(_, _)
mark_safe_each(st, S) ==
    IF S = {} THEN st
    ELSE LET c == CHOOSE x \in S : TRUE
         IN  mark_safe_each(mark_safe(st, c), S \ {c})

(* add_knowledge step 3: the undetermined neighbours of cell *)
neighbors_of(st, cell) ==
    { n \in Around(st.height, st.width, cell) : n \notin st.mines /\ n \notin st.safes }

mark_neighbors_at_most(st, neighbors, count) ==
    LET all_mines == Cardinality(neighbors) >= count
        st1    == IF all_mines THEN mark_mine_each(st, neighbors) ELSE st
        count1 == IF all_mines THEN count - Cardinality(neighbors) ELSE count
        st2    == IF count1 = 0 THEN mark_safe_each(st1, neighbors) ELSE st1
    IN  [st |-> st2, count |-> count1]

(* add_knowledge, `if len(neighbors) == count` and `if count == 0`: the     *)
(* state and the local count after the two blocks                           *)
mark_neighbors(st, neighbors, count) ==
    LET all_mines == Cardinality(neighbors) = count
        st1    == IF all_mines THEN mark_mine_each(st, neighbors) ELSE st
        count1 == IF all_mines THEN count - Cardinality(neighbors) ELSE count
        st2    == IF count1 = 0 THEN mark_safe_each(st1, neighbors) ELSE st1
    IN  [st |-> st2, count |-> count1]

(* add_knowledge, new_sentence and its append *)
add_sentence(st, neighbors, count) ==
    LET new_sentence == Sentence(neighbors, count)
    IN  IF Cardinality(neighbors) # 0 /\ ~InKnowledge(new_sentence, st.knowledge)
        THEN [st EXCEPT !.knowledge = Append(@, new_sentence)]
        ELSE st

extract_one_mines_only(st, sentence) ==
    IF Cardinality(sentence.cells) = sentence.count /\ sentence.count # 0
    THEN mark_mine_each(st, sentence.cells) ELSE st

(* add_knowledge step 4, one sentence of the deep copy kb *)
extract_one(st, sentence) ==
    LET st1 == IF Cardinality(sentence.cells) = sentence.count /\ sentence.count # 0
               THEN mark_mine_each(st, sentence.cells) ELSE st
    IN  IF sentence.count = 0 THEN mark_safe_each(st1, sentence.cells) ELSE st1

(* add_knowledge step 4: `for sentence in kb`, kb the copy taken before the loop *)
RECURSIVE extract_from(_, _, _)
extract_from(st, kb, k) ==
    IF k > Len(kb) THEN st
    ELSE extract_from(extract_one(st, kb[k]), kb, k + 1)

extract_facts(st) == extract_from(st, st.knowledge, 1)

infer_pair_first_in_second(kn, i, j) ==
    IF kn[i].cells \subseteq kn[j].cells
    THEN LET new_sentence == Sentence(kn[j].cells \ kn[i].cells, kn[j].count - kn[i].count)
         IN  IF ~InKnowledge(new_sentence, kn) /\ Cardinality(new_sentence.cells) # 0
             THEN Append(kn, new_sentence) ELSE kn
    ELSE kn

(* infer_new_sentence, the body of the inner loop for the pair (i, j) *)
infer_pair(kn, i, j) ==
    IF kn[i].cells \subseteq kn[j].cells
    THEN LET new_sentence == Sentence(kn[j].cells \ kn[i].cells, kn[j].count - kn[i].count)
         IN  IF ~InKnowledge(new_sentence, kn) /\ Cardinality(new_sentence.cells) # 0
             THEN Append(kn, new_sentence) ELSE kn
    ELSE IF kn[j].cells \subseteq kn[i].cells
    THEN LET new_sentence == Sentence(kn[i].cells \ kn[j].cells, kn[i].count - kn[j].count)
         IN  IF ~InKnowledge(new_sentence, kn) /\ Cardinality(new_sentence.cells) # 0
             THEN Append(kn, new_sentence) ELSE kn
    ELSE kn

(* `for j in range(i+1, len(self.knowledge))`: the range is built when the  *)
(* inner loop starts, so jmax is the length at that moment                  *)
RECURSIVE infer_inner(_, _, _, _)
infer_inner(kn, i, j, jmax) ==
    IF j > jmax THEN kn
    ELSE infer_inner(infer_pair(kn, i, j), i, j + 1, jmax)

(* `for i in range(len(self.knowledge))`: imax is the length at the start *)
RECURSIVE infer_outer(_, _, _)
infer_outer(kn, i, imax) ==
    IF i > imax THEN kn
    ELSE infer_outer(infer_inner(kn, i, i + 1, Len(kn)), i + 1, imax)

infer_new_sentence(st) ==
    [st EXCEPT !.knowledge = infer_outer(@, 1, Len(@))]

(* add_knowledge up to its call of infer_new_sentence: steps 1 to 4 *)
add_knowledge_facts(st, cell, count) ==
    LET st1 == [st EXCEPT !.moves_made = @ \cup {cell}]
        st2 == mark_safe(st1, cell)
        neighbors == neighbors_of(st2, cell)
        m   == mark_neighbors(st2, neighbors, count)
        st3 == add_sentence(m.st, neighbors, m.count)
    IN  extract_facts(st3)

add_knowledge(st, cell, count) ==
    infer_new_sentence(add_knowledge_facts(st, cell, count))

(* infer_new_sentence one iteration at a time.  lp is the position         *)
(* [pc, i, imax, j, jmax]: pc is "idle" outside the function, "outer" at   *)
(* the head of `for i`, "inner" at the head of `for j`; imax and jmax are  *)
(* the ends of the two ranges, fixed when each range is built.             *)
Idle == [pc |-> "idle", i |-> 0, imax |-> 0, j |-> 0, jmax |-> 0]

infer_enter(kn) == [pc |-> "outer", i |-> 1, imax |-> Len(kn), j |-> 0, jmax |-> 0]

(* the head of `for i in range(len(self.knowledge))` *)
outer_head(lp, kn) ==
    IF lp.i > lp.imax
    THEN [lp EXCEPT !.pc = "idle"]
    ELSE [lp EXCEPT !.pc = "inner", !.j = lp.i + 1, !.jmax = Len(kn)]

(* the head of `for j in range(i+1, len(self.knowledge))` after the body   *)
(* has run for j and left the list kn                                      *)
inner_advance_rereading_len(lp, kn) == [lp EXCEPT !.j = @ + 1, !.jmax = Len(kn)]

inner_advance(lp, kn) == [lp EXCEPT !.j = @ + 1]

(* make_safe_move: the outcomes of a call, each the returned value with   *)
(* the engine state the call leaves.  The loop runs over a set, so the     *)
(* first cell that passes the test is any cell that passes it; with none,  *)
(* or with safes empty, the function falls off its end and returns None.   *)
make_safe_move_ignoring_mines(st) ==
    IF Cardinality(st.safes) # 0
    THEN LET found == { cell \in st.safes : cell \notin st.moves_made }
         IN  IF found # {} THEN { [ret |-> cell, st |-> st] : cell \in found }
             ELSE { [ret |-> None, st |-> st] }
    ELSE { [ret |-> None, st |-> st] }

make_safe_move_recording_move(st) ==
    IF Cardinality(st.safes) # 0
    THEN LET found == { cell \in st.safes : cell \notin st.moves_made /\ cell \notin st.mines }
         IN  IF found # {}
             THEN { [ret |-> cell, st |-> [st EXCEPT !.moves_made = @ \cup {cell}]] : cell \in found }
             ELSE { [ret |-> None, st |-> st] }
    ELSE { [ret |-> None, st |-> st] }

make_safe_move(st) ==
    IF Cardinality(st.safes) # 0
    THEN LET found == { cell \in st.safes : cell \notin st.moves_made /\ cell \notin st.mines }
         IN  IF found # {} THEN { [ret |-> cell, st |-> st] : cell \in found }
             ELSE { [ret |-> None, st |-> st] }
    ELSE { [ret |-> None, st |-> st] }

----------------------------------------------------------------------------
(* The state machine *)

AI == [height |-> height, width |-> width,
       moves_made |-> moves_made, mines |-> mines, safes |-> safes,
       knowledge |-> knowledge]

Call(op, cell, count, ret) == [op |-> op, cell |-> cell, count |-> count, ret |-> ret]

Becomes(st) ==
    /\ moves_made' = st.moves_made
    /\ mines' = st.mines
    /\ safes' = st.safes
    /\ knowledge' = st.knowledge
    /\ pre' = AI
    /\ UNCHANGED <<height, width>>

Constructed(h, w) ==
    /\ height = h
    /\ width = w
    /\ moves_made = {}
    /\ mines = {}
    /\ safes = {}
    /\ knowledge = <<>>
    /\ calls = 0
    /\ pre = NewAI(h, w)
    /\ last = Call("init", None, 0, None)
    /\ loop = Idle

(* Minesweeper.__init__: the mines of the board, `mines` distinct cells *)
Boards(h, w, n) == { b \in SUBSET Cells(h, w) : Cardinality(b) = n }

(* A game: the board holds its mines, the player knows nothing *)
Init ==
    /\ Constructed(GameHeight, GameWidth)
    /\ board \in Boards(GameHeight, GameWidth, GameMines)

(* The player reveals a cell that is no mine and that it has not revealed, *)
(* and reports the board's count.                                          *)
Reveal(cell) ==
    /\ ~is_mine(board, cell)
    /\ cell \notin moves_made
    /\ Becomes(add_knowledge(AI, cell, nearby_mines(height, width, board, cell)))
    /\ last' = Call("add_knowledge", cell, nearby_mines(height, width, board, cell), None)
    /\ UNCHANGED <<board, calls, loop>>

MakeSafeMove ==
    /\ \E out \in make_safe_move(AI) :
          /\ Becomes(out.st)
          /\ last' = Call("make_safe_move", None, 0, out.ret)
    /\ UNCHANGED <<board, calls, loop>>

AddKnowledge(cell, count) ==
    /\ calls < MaxCalls
    /\ calls' = calls + 1
    /\ Becomes(add_knowledge(AI, cell, count))
    /\ last' = Call("add_knowledge", cell, count, None)
    /\ UNCHANGED <<board, loop>>

MarkMine(cell) ==
    /\ calls < MaxCalls
    /\ calls' = calls + 1
    /\ Becomes(mark_mine(AI, cell))
    /\ last' = Call("mark_mine", cell, 0, None)
    /\ UNCHANGED <<board, loop>>

MarkSafe(cell) ==
    /\ calls < MaxCalls
    /\ calls' = calls + 1
    /\ Becomes(mark_safe(AI, cell))
    /\ last' = Call("mark_safe", cell, 0, None)
    /\ UNCHANGED <<board, loop>>

Next ==
    \/ \E cell \in Cells(GameHeight, GameWidth) : Reveal(cell)
    \/ MakeSafeMove

Spec == Init /\ [][Next]_vars

(* The engine alone: no game is played, the board is left empty. *)
InitAPI ==
    /\ Constructed(APIHeight, APIWidth)
    /\ board = {}

NextAPI ==
    \/ \E cell \in Cells(APIHeight, APIWidth), count \in 0 .. MaxCount : AddKnowledge(cell, count)
    \/ \E cell \in Cells(APIHeight, APIWidth) : MarkMine(cell)
    \/ \E cell \in Cells(APIHeight, APIWidth) : MarkSafe(cell)
    \/ MakeSafeMove

SpecAPI == InitAPI /\ [][NextAPI]_vars

(* add_knowledge called directly, up to its call of infer_new_sentence *)
AddKnowledgeEnter(cell, count) ==
    /\ loop.pc = "idle"
    /\ calls < MaxStepCalls
    /\ calls' = calls + 1
    /\ Becomes(add_knowledge_facts(AI, cell, count))
    /\ last' = Call("add_knowledge", cell, count, None)
    /\ loop' = infer_enter(add_knowledge_facts(AI, cell, count).knowledge)
    /\ UNCHANGED board

(* `for i in range(len(self.knowledge))`: the next i, or the return *)
InferOuter ==
    /\ loop.pc = "outer"
    /\ loop' = outer_head(loop, knowledge)
    /\ UNCHANGED <<height, width, board, moves_made, mines, safes, knowledge, calls, pre, last>>

(* `for j in range(i+1, len(self.knowledge))`: the body for the next j, or *)
(* the end of the inner loop                                               *)
InferInner ==
    /\ loop.pc = "inner"
    /\ IF loop.j > loop.jmax
       THEN /\ loop' = [loop EXCEPT !.pc = "outer", !.i = @ + 1]
            /\ UNCHANGED knowledge
       ELSE /\ knowledge' = infer_pair(knowledge, loop.i, loop.j)
            /\ loop' = inner_advance(loop, infer_pair(knowledge, loop.i, loop.j))
    /\ UNCHANGED <<height, width, board, moves_made, mines, safes, calls, pre, last>>

NextSteps ==
    \/ \E cell \in Cells(APIHeight, APIWidth), count \in 0 .. MaxCount :
          AddKnowledgeEnter(cell, count)
    \/ InferOuter
    \/ InferInner

SpecSteps == InitAPI /\ [][NextSteps]_vars

(* The interpreter runs a loop that has an iteration to run. *)
SpecStepsFair == SpecSteps /\ WF_vars(InferOuter) /\ WF_vars(InferInner)

----------------------------------------------------------------------------
(* Properties *)

Revealable == Cells(height, width) \ board

(* The cells make_safe_move had to choose from, in the state it was called in *)
SafeCandidates(st) ==
    { cell \in st.safes : cell \notin st.moves_made /\ cell \notin st.mines }

(* C1: in a game, no cell is both a known mine and a known safe cell. *)
C1_MinesSafesDisjoint == mines \cap safes = {}

(* C2: in a game, a cell returned by make_safe_move is no mine of the board. *)
C2_SafeMoveIsNoMine ==
    (last.op = "make_safe_move" /\ last.ret # None) => ~is_mine(board, last.ret)

(* C3: make_safe_move returns a cell of safes that is neither in moves_made *)
(* nor in mines when there is one, and None exactly when there is none.     *)
C3_SafeMoveResult ==
    last.op = "make_safe_move" =>
        /\ SafeCandidates(pre) # {} => last.ret \in SafeCandidates(pre)
        /\ last.ret = None <=> SafeCandidates(pre) = {}

C3_Witness ==
    /\ last.op = "make_safe_move"
    /\ last.ret \in pre.safes
    /\ pre.safes \cap pre.mines # {}
    /\ pre.safes \cap pre.moves_made # {}

(* C4: no call removes a cell from moves_made, mines or safes. *)
C4_SetsOnlyGrow ==
    /\ pre.moves_made \subseteq moves_made
    /\ pre.mines \subseteq mines
    /\ pre.safes \subseteq safes

C4_Witness ==
    /\ last.op = "mark_safe"
    /\ last.cell \in pre.mines
    /\ pre.moves_made # {}

(* C5: in a game, every stored sentence has 0 <= count <= len(cells). *)
C5_CountInRange ==
    \A i \in DOMAIN knowledge :
        0 <= knowledge[i].count /\ knowledge[i].count <= Cardinality(knowledge[i].cells)

(* C6: when add_knowledge returns, one more extraction pass and one more   *)
(* inference pass mark no cell and append no sentence.                     *)
C6_FixedPoint ==
    last.op = "add_knowledge" =>
        LET again == infer_new_sentence(extract_facts(AI))
        IN  /\ again.mines = mines
            /\ again.safes = safes
            /\ Len(again.knowledge) = Len(knowledge)

(* C7: add_knowledge called again with the arguments of the call that has  *)
(* just returned changes nothing.                                          *)
C7_Idempotent ==
    last.op = "add_knowledge" => add_knowledge(AI, last.cell, last.count) = AI

(* C8: once every non-mine cell has been revealed (each once), the cells of *)
(* every sentence with count 0 are in safes and the cells of every sentence *)
(* with count = len(cells) > 0 are in mines: nothing is left to extract.    *)
C8_DegenerateExtracted ==
    moves_made = Revealable =>
        \A i \in DOMAIN knowledge :
            /\ knowledge[i].count = 0 => knowledge[i].cells \subseteq safes
            /\ (knowledge[i].count = Cardinality(knowledge[i].cells) /\ knowledge[i].count > 0)
                   => knowledge[i].cells \subseteq mines

(* C9: after mark_mine(c), c is in mines, no sentence contains c, a sentence *)
(* that contained c lost c alone and 1 of its count, and any other sentence  *)
(* is as it was.                                                             *)
C9_MarkMinePost ==
    last.op = "mark_mine" =>
        /\ last.cell \in mines
        /\ Len(knowledge) = Len(pre.knowledge)
        /\ \A i \in DOMAIN knowledge :
              /\ last.cell \notin knowledge[i].cells
              /\ IF last.cell \in pre.knowledge[i].cells
                 THEN /\ knowledge[i].cells = pre.knowledge[i].cells \ {last.cell}
                      /\ knowledge[i].count = pre.knowledge[i].count - 1
                 ELSE knowledge[i] = pre.knowledge[i]

C9_Witness ==
    /\ last.op = "mark_mine"
    /\ \E i, j \in DOMAIN pre.knowledge :
          /\ last.cell \in pre.knowledge[i].cells
          /\ last.cell \notin pre.knowledge[j].cells
          /\ knowledge[i].count = pre.knowledge[i].count - 1

(* C10: make_safe_move changes nothing of the engine state. *)
C10_SafeMoveNoMutation ==
    last.op = "make_safe_move" => AI = pre

C10_Witness ==
    /\ last.op = "make_safe_move"
    /\ last.ret # None
    /\ Len(knowledge) > 0
    /\ AI = pre

(* The work infer_new_sentence has left: the iterations of `for i` to come, *)
(* then whether the inner loop is running, then its iterations to come.    *)
Rank(lp) ==
    IF lp.pc = "idle" THEN <<0, 0, 0>>
    ELSE IF lp.pc = "outer" THEN <<lp.imax + 1 - lp.i, 1, 0>>
    ELSE <<lp.imax + 1 - lp.i, 0, lp.jmax + 1 - lp.j>>

RankLess(a, b) ==
    \/ a[1] < b[1]
    \/ a[1] = b[1] /\ a[2] < b[2]
    \/ a[1] = b[1] /\ a[2] = b[2] /\ a[3] < b[3]

(* C11: every add_knowledge call terminates: each step of the pass of      *)
(* infer_new_sentence lowers its rank, the rank is never below zero, and a *)
(* call that is in the pass leaves it.                                     *)
C11_Terminates ==
    /\ [][loop.pc # "idle" => RankLess(Rank(loop'), Rank(loop))]_vars
    /\ [](\A k \in 1 .. 3 : Rank(loop)[k] >= 0)
    /\ (loop.pc # "idle") ~> (loop.pc = "idle")

(* a call has returned whose pass appended to the list it was iterating *)
C11_Witness ==
    /\ last.op = "add_knowledge"
    /\ loop.pc = "idle"
    /\ Len(knowledge) > loop.imax
    /\ loop.imax >= 2
    /\ AI = add_knowledge(pre, last.cell, last.count)

(* C12: after add_knowledge(cell, 0) the cell is in moves_made and in      *)
(* safes, every neighbour of it that was in neither set before the call is *)
(* in safes and not in mines, and a following make_safe_move returns a     *)
(* cell of safes outside moves_made whenever there is one.                 *)
C12_ZeroCount ==
    (last.op = "add_knowledge" /\ last.count = 0) =>
        /\ last.cell \in moves_made
        /\ last.cell \in safes
        /\ \A n \in Around(height, width, last.cell) :
              (n \notin pre.mines /\ n \notin pre.safes) => (n \in safes /\ n \notin mines)
        /\ \A out \in make_safe_move(AI) :
              (safes \ moves_made # {}) => out.ret \in safes \ moves_made

(* C13: from a newly built engine, add_knowledge(cell, count) with count   *)
(* above 0 and below the number of neighbours of the cell leaves exactly   *)
(* the one sentence (all neighbours of the cell, count), no mine, the cell *)
(* as the only safe, and make_safe_move then returns None.                 *)
C13_FirstSentence ==
    (/\ last.op = "add_knowledge"
     /\ pre = NewAI(height, width)
     /\ 0 < last.count
     /\ last.count < Cardinality(Around(height, width, last.cell))) =>
        /\ knowledge = <<Sentence(Around(height, width, last.cell), last.count)>>
        /\ mines = {}
        /\ safes = {last.cell}
        /\ \A out \in make_safe_move(AI) : out.ret = None

(* the first call told of two mines among the five neighbours of (0,1) *)
C13_Witness ==
    /\ last.op = "add_knowledge"
    /\ pre = NewAI(height, width)
    /\ last.cell = <<0, 1>>
    /\ last.count = 2
    /\ Cardinality(Around(height, width, last.cell)) = 5
    /\ Len(knowledge) = 1

(* C14: whenever add_knowledge, mark_mine or mark_safe has returned, no    *)
(* cell of mines or of safes is among the cells of a sentence of knowledge.*)
C14_SentencesSimplified ==
    last.op \in {"add_knowledge", "mark_mine", "mark_safe"} =>
        \A i \in DOMAIN knowledge : knowledge[i].cells \cap (mines \cup safes) = {}

(* a call has marked neighbours of its cell, its inference pass has        *)
(* appended a sentence, and a sentence with cells is left                  *)
C14_Witness ==
    /\ last.op = "add_knowledge"
    /\ neighbors_of(pre, last.cell) \cap (mines \cup safes) # {}
    /\ Len(knowledge) > Len(add_knowledge_facts(pre, last.cell, last.count).knowledge)
    /\ \E i \in DOMAIN knowledge : knowledge[i].cells # {}

(* C15: whenever add_knowledge has returned, no sentence of knowledge has  *)
(* an empty set of cells.                                                  *)
C15_NoEmptySentence ==
    last.op = "add_knowledge" =>
        \A i \in DOMAIN knowledge : knowledge[i].cells # {}

(* C16: the sentences of knowledge are pairwise distinct: no two positions *)
(* hold equal cells and equal count.                                       *)
C16_Distinct ==
    \A i, j \in DOMAIN knowledge :
        (i # j) => ~(knowledge[i].cells = knowledge[j].cells /\ knowledge[i].count = knowledge[j].count)

(* The knowledge list when the last add_knowledge call entered             *)
(* infer_new_sentence                                                      *)
KnowledgeAtInfer == add_knowledge_facts(pre, last.cell, last.count).knowledge

(* C17: when add_knowledge has returned, for every two sentences A and B   *)
(* that were in the list when infer_new_sentence started, with the cells   *)
(* of A a proper subset of the cells of B, the list holds a sentence equal *)
(* to (B.cells - A.cells, B.count - A.count), in whichever order A and B   *)
(* stand; and the sentences the list held at the start are still there,    *)
(* at their positions and unchanged.                                       *)
C17_PairwiseComplete ==
    last.op = "add_knowledge" =>
        LET kn == KnowledgeAtInfer
        IN  /\ \A a, b \in DOMAIN kn :
                  (kn[a].cells \subseteq kn[b].cells /\ kn[a].cells # kn[b].cells) =>
                      InKnowledge(Sentence(kn[b].cells \ kn[a].cells, kn[b].count - kn[a].count),
                                  knowledge)
            /\ Len(knowledge) >= Len(kn)
            /\ SubSeq(knowledge, 1, Len(kn)) = kn

(* the pass met a sentence standing before a proper subset of it, and      *)
(* appended their difference                                               *)
C17_Witness ==
    /\ last.op = "add_knowledge"
    /\ \E a, b \in DOMAIN KnowledgeAtInfer :
          LET kn == KnowledgeAtInfer
          IN  /\ b < a
              /\ kn[a].cells \subseteq kn[b].cells /\ kn[a].cells # kn[b].cells
              /\ kn[a].cells # {}
              /\ ~InKnowledge(Sentence(kn[b].cells \ kn[a].cells, kn[b].count - kn[a].count), kn)

(* C18: in a game, where every add_knowledge call reports the true count  *)
(* of a cell that is no mine, every cell of mines is a mine of the board.  *)
C18_MinesAreMines == mines \subseteq board

(* C19: in a game, the count of every sentence of knowledge is the number  *)
(* of mines of the board among its cells.                                  *)
C19_SentencesTrue ==
    \A i \in DOMAIN knowledge :
        knowledge[i].count = Cardinality(knowledge[i].cells \cap board)

====
